---------------------------- MODULE Spec2Model ----------------------------
(***************************************************************************)
(* A model of src/pdf_extraction_pipeline.py: EfficientPDFExtractor.       *)
(*                                                                         *)
(*   extract_pdf_content  one document: exists check, hash, cache notice,  *)
(*                        open, metadata, page loop, close, record, insert *)
(*   save_result          serialization of one record                      *)
(*   batch_process        directory scan, ThreadPoolExecutor, as_completed *)
(*   _process_single_file the task each pool worker runs                   *)
(*                                                                         *)
(* The Document Reader (PyMuPDF) is an external collaborator: what it      *)
(* answers for a file is a function of the file's bytes, which the model   *)
(* keeps in fs.  The record's time stamp, the elapsed times and the file   *)
(* size are left out: no step of the code branches on them except the      *)
(* choice between the indented and the compact JSON encoding, which write  *)
(* the same file.  The time stamp in an output path is kept.               *)
(***************************************************************************)
EXTENDS Integers, Sequences, FiniteSets, TLC

(***************************************************************************)
(* Bounds of the model.                                                    *)
(***************************************************************************)
NumFiles == 2
MaxWorkers == 2
MaxPages == 2

Files == 1..NumFiles
Main == 0
Workers == 1..MaxWorkers
Threads == {Main} \cup Workers

(***************************************************************************)
(* Strings are sequences of characters, so that split, strip and the       *)
(* ordering of strings are computed and not assumed.                       *)
(***************************************************************************)
Whitespace == {" "}

CharCode(c) ==
    CASE c = " " -> 32 [] c = "(" -> 40 [] c = ")" -> 41 [] c = "." -> 46
      [] c = "0" -> 48 [] c = "1" -> 49 [] c = "2" -> 50 [] c = "3" -> 51
      [] c = "4" -> 52 [] c = "5" -> 53 [] c = "6" -> 54 [] c = "7" -> 55
      [] c = "8" -> 56 [] c = "9" -> 57
      [] c = "A" -> 65 [] c = "T" -> 84 [] c = "U" -> 85
      [] c = "a" -> 97 [] c = "b" -> 98 [] c = "k" -> 107 [] c = "n" -> 110
      [] c = "o" -> 111 [] c = "p" -> 112 [] c = "t" -> 116 [] c = "w" -> 119
      [] OTHER -> 0

\* str.split() without arguments: the number of maximal runs of
\* non-whitespace characters.
RECURSIVE WordCountFrom(_, _, _)
WordCountFrom(text, i, inWord) ==
    IF i > Len(text) THEN 0
    ELSE IF text[i] \in Whitespace THEN WordCountFrom(text, i + 1, FALSE)
    ELSE (IF inWord THEN 0 ELSE 1) + WordCountFrom(text, i + 1, TRUE)

WordCount(text) == WordCountFrom(text, 1, FALSE)

\* str.strip(): leading and trailing whitespace removed.
RECURSIVE LStrip(_)
LStrip(s) == IF s # <<>> /\ Head(s) \in Whitespace THEN LStrip(Tail(s)) ELSE s

RECURSIVE RStrip(_)
RStrip(s) ==
    IF s # <<>> /\ s[Len(s)] \in Whitespace
    THEN RStrip(SubSeq(s, 1, Len(s) - 1)) ELSE s

Strip(s) == RStrip(LStrip(s))

\* Python's order on str: lexicographic by code point.
RECURSIVE StrLess(_, _)
StrLess(a, b) ==
    IF b = <<>> THEN FALSE
    ELSE IF a = <<>> THEN TRUE
    ELSE IF CharCode(Head(a)) # CharCode(Head(b))
         THEN CharCode(Head(a)) < CharCode(Head(b))
    ELSE StrLess(Tail(a), Tail(b))

\* sorted(list(S)) for a set of strings.
RECURSIVE Sorted(_)
Sorted(S) ==
    IF S = {} THEN <<>>
    ELSE LET m == CHOOSE x \in S : \A y \in S \ {x} : StrLess(x, y)
         IN  <<m>> \o Sorted(S \ {m})

Digit(d) ==
    CASE d = 0 -> "0" [] d = 1 -> "1" [] d = 2 -> "2" [] d = 3 -> "3"
      [] d = 4 -> "4" [] d = 5 -> "5" [] d = 6 -> "6" [] d = 7 -> "7"
      [] d = 8 -> "8" [] d = 9 -> "9"

RECURSIVE Digits(_)
Digits(n) == IF n < 10 THEN <<Digit(n)>> ELSE Digits(n \div 10) \o <<Digit(n % 10)>>

\* f"{size:.1f}" for a size given in hundredths of a point (no sampled size
\* lies halfway between two tenths).
Fmt1(hundredths) ==
    LET tenths == (hundredths + 5) \div 10
    IN  Digits(tenths \div 10) \o <<".">> \o <<Digit(tenths % 10)>>

UnknownFont == <<"U", "n", "k", "n", "o", "w", "n">>

\* A span of get_text("dict"): hasFont / hasSize say whether the key is
\* present; size is in hundredths of a point.
Span(hasFont, font, hasSize, size) ==
    [hasFont |-> hasFont, font |-> font, hasSize |-> hasSize, size |-> size]

\* f"{span.get('font', 'Unknown')} ({span.get('size', 0):.1f}pt)"
FontInfo(span) ==
    (IF span.hasFont THEN span.font ELSE UnknownFont)
      \o <<" ", "(">>
      \o Fmt1(IF span.hasSize THEN span.size ELSE 0)
      \o <<"p", "t", ")">>

RECURSIVE SumSeq(_)
SumSeq(s) == IF s = <<>> THEN 0 ELSE Head(s) + SumSeq(Tail(s))

Range(s) == {s[i] : i \in 1..Len(s)}

SeqsUpTo(S, n) == UNION {[1..k -> S] : k \in 0..n}

(***************************************************************************)
(* What the Document Reader answers for a page, a document, a file.        *)
(***************************************************************************)
SpanA12 == Span(TRUE, <<"A">>, TRUE, 1200)
SpanA1204 == Span(TRUE, <<"A">>, TRUE, 1204)
SpanT9 == Span(TRUE, <<"T">>, TRUE, 900)
SpanNoFont == Span(FALSE, <<>>, FALSE, 0)

\* status: "ok", or where the page fails ("load": doc.load_page raises,
\* "text": page.get_text raises).  spans: the spans of get_text("dict") in
\* order, unless spansOk is FALSE (get_text("dict") raises).  images: for
\* each entry of get_images whether extract_image succeeds, unless imagesOk
\* is FALSE (get_images raises).
Page(status, text, spansOk, spans, imagesOk, images) ==
    [status |-> status, text |-> text, spansOk |-> spansOk, spans |-> spans,
     imagesOk |-> imagesOk, images |-> images]

PageSamples ==
    { Page("load", <<>>, TRUE, <<>>, TRUE, <<>>),
      Page("text", <<>>, TRUE, <<>>, TRUE, <<>>),
      Page("ok", <<>>, TRUE, <<>>, TRUE, <<>>),
      Page("ok", <<" ">>, TRUE, <<SpanA12>>, TRUE, <<TRUE>>),
      Page("ok", <<"a", " ", "b">>, TRUE, <<SpanT9, SpanA12, SpanA1204>>,
           TRUE, <<FALSE, TRUE>>),
      Page("ok", <<"a">>, TRUE, <<SpanNoFont>>, FALSE, <<>>),
      Page("ok", <<" ", "a", "b", " ">>, FALSE, <<>>, TRUE, <<TRUE, TRUE>>) }

\* An entry of doc.metadata: kind "str" (a string), "none" (None), or
\* "bad" (a value on which value.strip() raises).
MetaEntry(key, kind, value) == [key |-> key, kind |-> kind, value |-> value]

\* doc.metadata: the entries in iteration order; ok is FALSE when reading
\* doc.metadata itself raises.
Metadata(ok, entries) == [ok |-> ok, entries |-> entries]

MetadataSamples ==
    { Metadata(FALSE, <<>>),
      Metadata(TRUE, <<>>),
      Metadata(TRUE, << MetaEntry("title", "str", <<" ", "a", " ">>),
                        MetaEntry("author", "str", <<>>),
                        MetaEntry("subject", "str", <<" ">>),
                        MetaEntry("creator", "none", <<>>) >>),
      Metadata(TRUE, << MetaEntry("title", "str", <<"a">>),
                        MetaEntry("author", "bad", <<>>),
                        MetaEntry("subject", "str", <<"b">>) >>) }

\* The bytes of a file, named by what the Document Reader makes of them:
\* kind "doc" (fitz.open succeeds), "corrupt" (fitz.open raises), "none"
\* (no bytes can be read).
Content(kind, metadata, pages) ==
    [kind |-> kind, metadata |-> metadata, pages |-> pages]

Corrupt == Content("corrupt", Metadata(TRUE, <<>>), <<>>)
NoContent == Content("none", Metadata(TRUE, <<>>), <<>>)

Documents(pageSet, metaSet, maxPages) ==
    {Content("doc", m, p) : m \in metaSet, p \in SeqsUpTo(pageSet, maxPages)}

FileState(exists, readable, content) ==
    [exists |-> exists, readable |-> readable, content |-> content]

Missing == FileState(FALSE, FALSE, NoContent)
Unreadable == FileState(TRUE, FALSE, NoContent)

FileStates(docs) ==
    {Missing, Unreadable} \cup {FileState(TRUE, TRUE, c) : c \in docs \cup {Corrupt}}

(***************************************************************************)
(* save_result's format_type values, as strings of characters.             *)
(***************************************************************************)
FmtJson == <<"j", "s", "o", "n">>
FmtJsonUpper == <<"J", "S", "O", "N">>
FmtSummary == <<"s", "u", "m", "m", "a", "r", "y">>
FmtXml == <<"x", "m", "l">>
Formats == {FmtJson, FmtJsonUpper, FmtSummary, FmtXml}

LowerChar(c) ==
    CASE c = "J" -> "j" [] c = "S" -> "s" [] c = "O" -> "o" [] c = "N" -> "n"
      [] OTHER -> c

\* str.lower()
Lower(s) == [i \in 1..Len(s) |-> LowerChar(s[i])]

(***************************************************************************)
(* The state.                                                              *)
(***************************************************************************)
VARIABLES
    fs,               \* the input files: what each path holds
    dir,              \* the input directory: whether it exists, its *.pdf files
    enable_images,    \* self.enable_images
    hashOrder,        \* the iteration order of this process's sets of str
    processed_files,  \* self.processed_files
    output_dir,       \* the files written under self.output_dir
    th,               \* per thread: the frame of the call it is running
    firstResult,      \* per file: the first record extract_pdf_content returned
    bpc,              \* where batch_process is
    max_workers,      \* batch_process's max_workers
    save_format,      \* batch_process's save_format
    pdf_files,        \* batch_process's pdf_files, in submission order
    queue,            \* the executor's work queue
    future,           \* per file: the state and result of its future
    done_order,       \* the files in the order their futures finished
    asc_finished,     \* as_completed's set of futures already finished at its start
    output_files,     \* batch_process's output_files
    failed_files,     \* batch_process's failed_files
    collected,        \* the files in the order as_completed yielded their futures
    tally             \* the counts batch_process logs before it returns

env == <<fs, dir, enable_images, hashOrder>>
ext == <<processed_files, output_dir, th, firstResult>>
bat == <<bpc, max_workers, save_format, pdf_files, output_files, failed_files,
         collected, asc_finished, tally>>
pool == <<queue, future, done_order>>
vars == <<env, ext, bat, pool>>

SigUniverse ==
    {FontInfo(sp) : sp \in {SpanA12, SpanA1204, SpanT9, SpanNoFont}}

Reverse(s) == [i \in 1..Len(s) |-> s[Len(s) + 1 - i]]

\* Two of the iteration orders a process may have.
HashOrders == {Sorted(SigUniverse), Reverse(Sorted(SigUniverse))}

\* list(S) for a set S of str: the elements in the process's iteration order.
ListOfSet(S) == SelectSeq(hashOrder, LAMBDA x : x \in S)

\* hashlib.md5 over the file's bytes: a function of the bytes alone.
MD5(content) == <<"md5", content>>
NoHash == <<"none", NoContent>>

(***************************************************************************)
(* _extract_page_content                                                   *)
(***************************************************************************)
RECURSIVE ImagesInfoFrom(_, _)
ImagesInfoFrom(images, i) ==
    IF i > Len(images) THEN <<>>
    ELSE (IF images[i] THEN <<[index |-> i - 1]>> ELSE <<>>)
           \o ImagesInfoFrom(images, i + 1)

PageFonts(page, word_count) ==
    IF page.text # <<>> /\ word_count > 0 /\ page.spansOk
    THEN ListOfSet({FontInfo(page.spans[i]) : i \in 1..Len(page.spans)})
    ELSE <<>>

PageImages(page) ==
    IF enable_images /\ page.imagesOk
    THEN ImagesInfoFrom(page.images, 1)
    ELSE <<>>

ExtractPageContent(page, page_num) ==
    LET text == page.text
        word_count == IF text # <<>> THEN WordCount(text) ELSE 0
    IN  [page_number |-> page_num + 1,
         text |-> text,
         word_count |-> word_count,
         char_count |-> Len(text),
         fonts |-> PageFonts(page, word_count),
         images |-> PageImages(page)]

(***************************************************************************)
(* The metadata block of extract_pdf_content: the dict left when the try   *)
(* block ends, normally or by an exception.                                *)
(***************************************************************************)
RECURSIVE MetadataFrom(_, _, _)
MetadataFrom(entries, i, acc) ==
    IF i > Len(entries) THEN acc
    ELSE LET e == entries[i]
         IN  IF e.kind = "bad" THEN acc
             ELSE IF e.kind = "str" /\ e.value # <<>> /\ Strip(e.value) # <<>>
                  THEN MetadataFrom(entries, i + 1,
                                    acc \cup {<<e.key, Strip(e.value)>>})
             ELSE MetadataFrom(entries, i + 1, acc)

ReadMetadata(md) == IF md.ok THEN MetadataFrom(md.entries, 1, {}) ELSE {}

(***************************************************************************)
(* PDFExtractionResult, without its time stamps and the file size.         *)
(***************************************************************************)
Result(path, hash, pages, words, chars, fonts, images, metadata) ==
    [file_path |-> path,
     file_hash |-> hash,
     page_count |-> Len(pages),
     total_words |-> words,
     total_chars |-> chars,
     fonts_used |-> Sorted(fonts),
     images_count |-> images,
     metadata |-> metadata,
     pages |-> pages]

NoFile == 0
NoResult == Result(NoFile, NoHash, <<>>, 0, 0, {}, 0, {})

(***************************************************************************)
(* A thread's frame.  pc: "idle", then the places of extract_pdf_content   *)
(* ("exists", "hash", "cache", "open", "meta", "pages", "finish"), then    *)
(* "extracted" (the record is returned), "save" (in save_result), "saved"  *)
(* (save_result returned), "raised" (an exception left the call).          *)
(***************************************************************************)
IdleFrame ==
    [pc |-> "idle", mode |-> "none", pdf_path |-> NoFile, skip_cache |-> FALSE,
     file_hash |-> NoHash, cache_hit |-> FALSE, doc_open |-> FALSE,
     closes |-> 0, metadata |-> {}, page_num |-> 0, total_words |-> 0,
     total_chars |-> 0, all_fonts |-> {}, total_images |-> 0,
     pages_content |-> <<>>, result |-> NoResult, exc |-> "",
     format_type |-> <<>>, output_file |-> <<>>]

CallFrame(mode, f, skip) ==
    [IdleFrame EXCEPT !.pc = "exists", !.mode = mode, !.pdf_path = f,
                      !.skip_cache = skip]

Doc(t) == fs[th[t].pdf_path].content

Raise(t, e) == [th EXCEPT ![t].pc = "raised", ![t].exc = e]

(***************************************************************************)
(* extract_pdf_content, one action per place, run by thread t.             *)
(***************************************************************************)
\* Lines 160-164: the path must exist.
ExistsCheck(t) ==
    /\ th[t].pc = "exists"
    /\ th' = IF fs[th[t].pdf_path].exists
             THEN [th EXCEPT ![t].pc = "hash"]
             ELSE Raise(t, "FileNotFoundError")
    /\ UNCHANGED <<env, processed_files, output_dir, firstResult, bat, pool>>

\* Line 165: _calculate_file_hash opens and reads the file.
HashFile(t) ==
    /\ th[t].pc = "hash"
    /\ th' = IF fs[th[t].pdf_path].readable
             THEN [th EXCEPT ![t].pc = "cache", ![t].file_hash = MD5(Doc(t))]
             ELSE Raise(t, "PermissionError")
    /\ UNCHANGED <<env, processed_files, output_dir, firstResult, bat, pool>>

\* A cache hit that ends the extraction early, with nothing read.
AfterCacheCheckSkipsOnHit(hit) == IF hit THEN "finish" ELSE "open"

\* Where extract_pdf_content goes on after the cache notice: line 171 follows
\* line 169 whether or not the notice was logged.
AfterCacheCheck(hit) == "open"

\* Lines 168-171: the cache notice.
CacheCheck(t) ==
    /\ th[t].pc = "cache"
    /\ LET hit == ~th[t].skip_cache /\ th[t].file_hash \in processed_files
       IN  th' = [th EXCEPT ![t].cache_hit = hit, ![t].pc = AfterCacheCheck(hit)]
    /\ UNCHANGED <<env, processed_files, output_dir, firstResult, bat, pool>>

\* Lines 174-177: fitz.open.
OpenDoc(t) ==
    /\ th[t].pc = "open"
    /\ th' = IF Doc(t).kind = "doc"
             THEN [th EXCEPT ![t].pc = "meta", ![t].doc_open = TRUE]
             ELSE Raise(t, "Exception")
    /\ UNCHANGED <<env, processed_files, output_dir, firstResult, bat, pool>>

\* Lines 180-195: the metadata block and the loop's accumulators.
ReadMeta(t) ==
    /\ th[t].pc = "meta"
    /\ th' = [th EXCEPT ![t].pc = "pages",
                        ![t].metadata = ReadMetadata(Doc(t).metadata)]
    /\ UNCHANGED <<env, processed_files, output_dir, firstResult, bat, pool>>

\* The totals taken before the page is known to be kept: the characters are
\* counted twice for a page with images.
AccumulateMiscounts(f, page_content) ==
    [f EXCEPT !.total_words = @ + page_content.word_count,
              !.total_chars = @ + page_content.char_count
                                + (IF page_content.images # <<>>
                                   THEN page_content.char_count ELSE 0),
              !.all_fonts = @ \cup Range(page_content.fonts),
              !.total_images = @ + Len(page_content.images),
              !.pages_content = Append(@, page_content)]

\* Lines 204-209: a page's content enters the totals and the list.
Accumulate(f, page_content) ==
    [f EXCEPT !.total_words = @ + page_content.word_count,
              !.total_chars = @ + page_content.char_count,
              !.all_fonts = @ \cup Range(page_content.fonts),
              !.total_images = @ + Len(page_content.images),
              !.pages_content = Append(@, page_content)]

\* A failing page that ends the loop (break for continue).
SkipPageBreaks(f) == [f EXCEPT !.page_num = Len(fs[f.pdf_path].content.pages)]

\* Lines 215-218: a page that fails is logged and the loop goes on with the
\* next page.
SkipPage(f) == [f EXCEPT !.page_num = @ + 1]

\* Lines 198-218: one iteration of the page loop.
PageStep(t) ==
    /\ th[t].pc = "pages"
    /\ th[t].page_num < Len(Doc(t).pages)
    /\ LET page_num == th[t].page_num
           page == Doc(t).pages[page_num + 1]
       IN  th' = [th EXCEPT ![t] =
                     IF page.status = "ok"
                     THEN Accumulate([th[t] EXCEPT !.page_num = page_num + 1],
                                     ExtractPageContent(page, page_num))
                     ELSE SkipPage(th[t])]
    /\ UNCHANGED <<env, processed_files, output_dir, firstResult, bat, pool>>

\* A close that a failed page leaves out (doc.close() as the last statement
\* of the loop's try block, reached only by a page that did not fail).
ClosedUnlessPageFailed(f) ==
    IF Len(f.pages_content) < f.page_num
    THEN [f EXCEPT !.pc = "finish"]
    ELSE [f EXCEPT !.pc = "finish", !.doc_open = FALSE, !.closes = @ + 1]

\* Line 220: the frame after doc.close().
Closed(f) == [f EXCEPT !.pc = "finish", !.doc_open = FALSE, !.closes = @ + 1]

\* Line 220: doc.close(), after the loop.
CloseDoc(t) ==
    /\ th[t].pc = "pages"
    /\ th[t].page_num = Len(Doc(t).pages)
    /\ th' = [th EXCEPT ![t] = Closed(th[t])]
    /\ UNCHANGED <<env, processed_files, output_dir, firstResult, bat, pool>>

\* Lines 240-254: the record.
BuildResult(f) ==
    Result(f.pdf_path, f.file_hash, f.pages_content, f.total_words,
           f.total_chars, f.all_fonts, f.total_images, f.metadata)

\* The set reassigned to the new hash alone.
InsertedAlone(S, file_hash) == {file_hash}

\* Line 256: self.processed_files.add(file_hash).
Inserted(S, file_hash) == S \cup {file_hash}

\* Lines 223-259: the record is built, the hash inserted, the record returned.
Finish(t) ==
    /\ th[t].pc = "finish"
    /\ LET f == th[t].pdf_path
           r == BuildResult(th[t])
       IN  /\ th' = [th EXCEPT ![t].pc = "extracted", ![t].result = r]
           /\ processed_files' = Inserted(processed_files, th[t].file_hash)
           /\ firstResult' = IF firstResult[f] = NoResult
                              THEN [firstResult EXCEPT ![f] = r]
                              ELSE firstResult
    /\ UNCHANGED <<env, output_dir, bat, pool>>

(***************************************************************************)
(* save_result                                                             *)
(***************************************************************************)
\* The name of the f-th entry of the input directory: a.pdf, a.b.pdf,
\* a.b.b.pdf, ...  A directory holds a name once, so the names differ.
FileName(f) ==
    <<"a">> \o [i \in 1..(2 * (f - 1)) |-> IF i % 2 = 1 THEN "." ELSE "b"]
            \o <<".", "p", "d", "f">>

\* The name cut at its first dot (every suffix dropped, not the last one).
StemUpToFirstDot(name) ==
    LET dots == {i \in 1..Len(name) : name[i] = "."}
    IN  IF dots = {} THEN name
        ELSE SubSeq(name, 1, (CHOOSE i \in dots : \A j \in dots : i <= j) - 1)

\* Line 264, Path(...).stem: the name without its last suffix; a dot that
\* starts or ends the name begins no suffix.
Stem(name) ==
    LET dots == {i \in 1..Len(name) : name[i] = "."}
        last == IF dots = {} THEN 0 ELSE CHOOSE i \in dots : \A j \in dots : j <= i
    IN  IF 1 < last /\ last < Len(name) THEN SubSeq(name, 1, last - 1) ELSE name

\* Line 265, strftime("%Y%m%d_%H%M%S"): the clock read to the second, a
\* string of fixed length.  Two seconds of one day.
Timestamps == {<<"0", "_", "0">>, <<"0", "_", "1">>}

SuffixJson == <<".", "j", "s", "o", "n">>
SuffixSummary == <<"_", "s", "u", "m", "m", "a", "r", "y", ".", "t", "x", "t">>

\* Lines 268 and 280: f"{file_stem}_{timestamp}.json" and
\* f"{file_stem}_{timestamp}_summary.txt" under output_dir.
OutputFile(file_stem, timestamp, suffix) ==
    file_stem \o <<"_">> \o timestamp \o suffix

\* An unknown format written as JSON.
FormatBranchFallsBackToJson(format_type) ==
    IF Lower(format_type) = FmtSummary THEN "summary" ELSE "json"

\* Lines 267, 279, 285: the branch save_result takes for a format_type.
FormatBranch(format_type) ==
    IF Lower(format_type) = FmtJson THEN "json"
    ELSE IF Lower(format_type) = FmtSummary THEN "summary"
    ELSE "unsupported"

\* Lines 261-289, called with the record thread t holds.  The write may
\* fail: at open (no file is left) or in the dump (the opened file is left).
\* The frame's output_file is the path save_result opened.
SaveResult(t, format_type) ==
    /\ th[t].pc = "extracted"
    /\ LET file_stem == Stem(FileName(th[t].result.file_path))
           branch == FormatBranch(format_type)
           suffix == IF branch = "json" THEN SuffixJson ELSE SuffixSummary
       IN  IF branch # "unsupported"
           THEN \E timestamp \in Timestamps,
                   outcome \in {"written", "open fails", "write fails"} :
                  LET path == OutputFile(file_stem, timestamp, suffix)
                  IN  /\ output_dir' = IF outcome = "open fails" THEN output_dir
                                       ELSE output_dir \cup {path}
                      /\ th' = IF outcome = "written"
                               THEN [th EXCEPT ![t].pc = "saved",
                                               ![t].format_type = format_type,
                                               ![t].output_file = path]
                               ELSE [Raise(t, "OSError") EXCEPT
                                       ![t].format_type = format_type,
                                       ![t].output_file =
                                           IF outcome = "write fails" THEN path
                                           ELSE <<>>]
           ELSE /\ th' = [Raise(t, "ValueError") EXCEPT ![t].format_type = format_type]
                /\ UNCHANGED output_dir
    /\ UNCHANGED <<env, processed_files, firstResult, bat, pool>>

(***************************************************************************)
(* A caller on the main thread: extract_pdf_content, then perhaps          *)
(* save_result on the record it got.                                       *)
(***************************************************************************)
DirectCall(f, skip) ==
    /\ bpc = "idle"
    /\ th[Main].pc = "idle"
    /\ th' = [th EXCEPT ![Main] = CallFrame("direct", f, skip)]
    /\ UNCHANGED <<env, processed_files, output_dir, firstResult, bat, pool>>

DirectSave(format_type) ==
    /\ th[Main].mode = "direct"
    /\ SaveResult(Main, format_type)

\* The caller is done with the call's outcome.
DirectReturn ==
    /\ th[Main].mode = "direct"
    /\ th[Main].pc \in {"extracted", "saved", "raised"}
    /\ th' = [th EXCEPT ![Main] = IdleFrame]
    /\ UNCHANGED <<env, processed_files, output_dir, firstResult, bat, pool>>

ExtractStep(t) ==
    \/ ExistsCheck(t)
    \/ HashFile(t)
    \/ CacheCheck(t)
    \/ OpenDoc(t)
    \/ ReadMeta(t)
    \/ PageStep(t)
    \/ CloseDoc(t)
    \/ Finish(t)

(***************************************************************************)
(* Direct calls on one extractor: any sequence of extract_pdf_content and  *)
(* save_result calls over the files.                                       *)
(***************************************************************************)
SingleDocs ==
    Documents(PageSamples, {Metadata(TRUE, <<>>)}, MaxPages)
      \cup Documents({Page("ok", <<"a">>, TRUE, <<SpanA12>>, TRUE, <<>>)},
                     MetadataSamples, 1)

\* The documents of the batch runs: one page with text, or one page that
\* fails.
BatchDocs ==
    Documents({Page("ok", <<"a", " ", "b">>, TRUE, <<SpanA12>>, TRUE, <<TRUE>>)},
              {Metadata(TRUE, <<>>)}, 1)
      \ {Content("doc", Metadata(TRUE, <<>>), <<>>)}

\* The save_format values of the batch runs.
BatchFormats == {FmtJson, FmtXml}

\* A future: its state, how often a worker started its task, and what the
\* task left in it: a returned value (None is the empty sequence) or the
\* exception that left the task.
NoFuture == [state |-> "none", runs |-> 0, exc |-> "", result |-> <<>>]

InitBatchIdle ==
    /\ bpc = "idle"
    /\ max_workers = 1
    /\ save_format = FmtJson
    /\ pdf_files = <<>>
    /\ queue = <<>>
    /\ future = [f \in Files |-> NoFuture]
    /\ done_order = <<>>
    /\ asc_finished = {}
    /\ output_files = <<>>
    /\ failed_files = <<>>
    /\ collected = <<>>
    /\ tally = [logged |-> FALSE, success_count |-> 0, fail_count |-> 0]

InitExtractor ==
    /\ processed_files = {}
    /\ output_dir = {}
    /\ th = [t \in Threads |-> IdleFrame]
    /\ firstResult = [f \in Files |-> NoResult]

InitSingle ==
    /\ \E file \in FileStates(SingleDocs) :
         fs = [f \in Files |-> IF f = 1 THEN file ELSE Missing]
    /\ dir = [exists |-> FALSE, n |-> 0]
    /\ enable_images \in BOOLEAN
    /\ hashOrder \in HashOrders
    /\ InitExtractor
    /\ InitBatchIdle

NextSingle ==
    \/ \E f \in Files, skip \in BOOLEAN : DirectCall(f, skip)
    \/ ExtractStep(Main)
    \/ \E format_type \in Formats : DirectSave(format_type)
    \/ DirectReturn

SpecSingle == InitSingle /\ [][NextSingle]_vars

(***************************************************************************)
(* Direct calls on one extractor over several files: each path is missing, *)
(* unreadable, not a PDF, a document of its own, or a copy of the first    *)
(* file's document.                                                        *)
(***************************************************************************)
\* A one-page document whose bytes differ from file to file (by its title).
OwnDoc(f) ==
    Content("doc", Metadata(TRUE, <<MetaEntry("title", "str", FileName(f))>>),
            <<Page("ok", <<"a">>, TRUE, <<SpanA12>>, TRUE, <<>>)>>)

CallFileStates(f) ==
    {Missing, Unreadable, FileState(TRUE, TRUE, Corrupt),
     FileState(TRUE, TRUE, OwnDoc(f)), FileState(TRUE, TRUE, OwnDoc(1))}

InitCalls ==
    /\ fs \in [Files -> UNION {CallFileStates(f) : f \in Files}]
    /\ \A f \in Files : fs[f] \in CallFileStates(f)
    /\ dir = [exists |-> FALSE, n |-> 0]
    /\ enable_images = TRUE
    /\ hashOrder = Sorted(SigUniverse)
    /\ InitExtractor
    /\ InitBatchIdle

NextCalls ==
    \/ \E f \in Files, skip \in BOOLEAN : DirectCall(f, skip)
    \/ ExtractStep(Main)
    \/ DirectSave(FmtJson)
    \/ DirectReturn

SpecCalls == InitCalls /\ [][NextCalls]_vars

(***************************************************************************)
(* batch_process on the main thread, the executor's workers in between.    *)
(***************************************************************************)
\* A pool that starts a thread for every task, whatever max_workers says.
PoolThreadsUnbounded == Workers

\* Line 351: the threads of ThreadPoolExecutor(max_workers=max_workers).
PoolThreads == 1..max_workers

\* An empty scan treated like a missing directory.
BatchEntryRaisesOnEmpty(d) == IF ~d.exists \/ d.n = 0 THEN "raised" ELSE "submit"

\* Lines 335-342: where batch_process goes from its entry: it raises for a
\* missing directory, returns for an empty scan, and goes on otherwise.
BatchEntry(d) ==
    IF ~d.exists THEN "raised"
    ELSE IF d.n = 0 THEN "returned"
    ELSE "submit"

\* Lines 335-351: the directory check, the scan, the empty case.
BatchStart(mw, fmt) ==
    /\ bpc = "idle"
    /\ th[Main].pc = "idle"
    /\ max_workers' = mw
    /\ save_format' = fmt
    /\ bpc' = BatchEntry(dir)
    /\ pdf_files' = IF dir.exists THEN [i \in 1..dir.n |-> i] ELSE <<>>
    /\ UNCHANGED <<env, ext, output_files, failed_files, collected, asc_finished,
                   tally, pool>>

\* Lines 353-356: executor.submit for the next file of pdf_files.
Submit ==
    /\ bpc = "submit"
    /\ \E i \in 1..Len(pdf_files) :
         /\ future[pdf_files[i]].state = "none"
         /\ \A j \in 1..(i - 1) : future[pdf_files[j]].state # "none"
         /\ future' = [future EXCEPT ![pdf_files[i]].state = "pending"]
         /\ queue' = Append(queue, pdf_files[i])
    /\ UNCHANGED <<env, ext, bat, done_order>>

\* A pool thread takes the next work item and calls
\* _process_single_file(pdf_path, save_format): line 390.  The idle threads
\* of a pool are interchangeable: the one with the least number takes it.
WorkerTake(w) ==
    /\ w \in PoolThreads
    /\ th[w].pc = "idle"
    /\ \A v \in PoolThreads : v < w => th[v].pc # "idle"
    /\ queue # <<>>
    /\ th' = [th EXCEPT ![w] = CallFrame("task", Head(queue), FALSE)]
    /\ queue' = Tail(queue)
    /\ future' = [future EXCEPT ![Head(queue)].state = "running",
                                ![Head(queue)].runs = @ + 1]
    /\ UNCHANGED <<env, processed_files, output_dir, firstResult, bat,
                   done_order>>

\* Line 391: save_result(result, save_format).
TaskSave(w) ==
    /\ th[w].mode = "task"
    /\ SaveResult(w, save_format)

\* The exceptions the model's calls raise, and the ones an
\* `except Exception` clause catches (lines 392 and 369).
Exceptions == {"FileNotFoundError", "PermissionError", "Exception", "OSError",
               "ValueError"}

\* A handler that names one exception class only.
ExceptFileNotFoundOnly(e) == e = "FileNotFoundError"

ExceptException(e) == e \in Exceptions

\* Lines 389-394: what _process_single_file leaves in its future: the output
\* path, None when the handler caught the exception, or the exception.
TaskResult(f) ==
    IF f.pc = "saved"
    THEN [state |-> "finished", exc |-> "", result |-> <<f.output_file>>]
    ELSE IF ExceptException(f.exc)
    THEN [state |-> "finished", exc |-> "", result |-> <<>>]
    ELSE [state |-> "finished", exc |-> f.exc, result |-> <<>>]

\* Lines 391-394: the task ends and its future is finished.
TaskReturn(w) ==
    /\ th[w].mode = "task"
    /\ th[w].pc \in {"saved", "raised"}
    /\ LET f == th[w].pdf_path
           r == TaskResult(th[w])
       IN  /\ future' = [future EXCEPT ![f].state = r.state, ![f].exc = r.exc,
                                       ![f].result = r.result]
           /\ done_order' = Append(done_order, f)
    /\ th' = [th EXCEPT ![w] = IdleFrame]
    /\ UNCHANGED <<env, processed_files, output_dir, firstResult, bat, queue>>

Submitted == \A i \in 1..Len(pdf_files) : future[pdf_files[i]].state # "none"

\* Line 359, as_completed's start: the futures already finished are set
\* apart; the others are yielded as they finish.
BeginCollect ==
    /\ bpc = "submit"
    /\ Submitted
    /\ asc_finished' = {f \in Range(pdf_files) : future[f].state = "finished"}
    /\ bpc' = "collect"
    /\ UNCHANGED <<env, ext, max_workers, save_format, pdf_files, output_files,
                   failed_files, collected, tally, pool>>

\* The futures taken in submission order, each once it is finished
\* (a loop over future_to_file and not over as_completed).
YieldableInSubmissionOrder ==
    LET left == SelectSeq(pdf_files, LAMBDA f : f \notin Range(collected))
    IN  IF left # <<>> /\ future[Head(left)].state = "finished"
        THEN {Head(left)} ELSE {}

\* The futures as_completed may yield next: any of those finished at its
\* start, then the others in the order they finished.
Yieldable ==
    LET early == asc_finished \ Range(collected)
        late == SelectSeq(done_order, LAMBDA f : f \notin asc_finished
                                              /\ f \notin Range(collected))
    IN  IF early # {} THEN early
        ELSE IF late # <<>> THEN {Head(late)} ELSE {}

\* A collection loop that keeps no record of a task that returned None.
RecordDropsFailure(lists, f, output_file) ==
    IF output_file # <<>>
    THEN [lists EXCEPT !.output_files = Append(@, output_file[1])]
    ELSE lists

\* Lines 363-367: the result goes to the end of one of the two lists.
Record(lists, f, output_file) ==
    IF output_file # <<>>
    THEN [lists EXCEPT !.output_files = Append(@, output_file[1])]
    ELSE [lists EXCEPT !.failed_files = Append(@, f)]

\* Lines 359-371: one iteration of the collection loop.  future.result()
\* raises the exception the task left; the handler of line 369 records the
\* file as failed, and an exception it does not catch leaves batch_process.
Collect ==
    /\ bpc = "collect"
    /\ \E f \in Yieldable :
         LET lists == [output_files |-> output_files, failed_files |-> failed_files]
             after == IF future[f].exc = ""
                      THEN Record(lists, f, future[f].result)
                      ELSE Record(lists, f, <<>>)
             caught == future[f].exc = "" \/ ExceptException(future[f].exc)
         IN  /\ output_files' = IF caught THEN after.output_files ELSE output_files
             /\ failed_files' = IF caught THEN after.failed_files ELSE failed_files
             /\ collected' = Append(collected, f)
             /\ bpc' = IF caught THEN bpc ELSE "raised"
    /\ UNCHANGED <<env, ext, max_workers, save_format, pdf_files,
                   asc_finished, tally, pool>>

\* A loop that ends with the futures finished at its start.
CollectedAllEarlyOnly == asc_finished \subseteq Range(collected)

\* The loop of line 359 ends when as_completed has yielded every future.
CollectedAll == Len(collected) = Len(pdf_files)

\* Lines 374-385: the loop is over, the counts are logged, the list returned.
Tally ==
    /\ bpc = "collect"
    /\ CollectedAll
    /\ tally' = [logged |-> TRUE, success_count |-> Len(output_files),
                 fail_count |-> Len(failed_files)]
    /\ bpc' = "returned"
    /\ UNCHANGED <<env, ext, max_workers, save_format, pdf_files, output_files,
                   failed_files, collected, asc_finished, pool>>

WorkerStep(w) ==
    \/ WorkerTake(w)
    \/ ExtractStep(w)
    \/ TaskSave(w)
    \/ TaskReturn(w)

BatchStep ==
    \/ \E mw \in 1..MaxWorkers, fmt \in BatchFormats : BatchStart(mw, fmt)
    \/ Submit
    \/ BeginCollect
    \/ Collect
    \/ Tally

(***************************************************************************)
(* One batch_process call on a new extractor.                              *)
(***************************************************************************)
Init ==
    /\ dir \in [exists : {TRUE}, n : 0..NumFiles] \cup {[exists |-> FALSE, n |-> 0]}
    /\ \E found \in [1..dir.n -> FileStates(BatchDocs)] :
         fs = [f \in Files |-> IF f <= dir.n THEN found[f] ELSE Missing]
    /\ enable_images = TRUE
    /\ hashOrder = Sorted(SigUniverse)
    /\ InitExtractor
    /\ InitBatchIdle

Next ==
    \/ BatchStep
    \/ \E w \in Workers : WorkerStep(w)

Spec == Init /\ [][Next]_vars

\* Every thread that can take a step eventually takes one.
FairSpec == Spec /\ WF_vars(Next)

(***************************************************************************)
(* Properties of extract_pdf_content, checked under SpecSingle.            *)
(***************************************************************************)
\* The frames that hold a record extract_pdf_content returned.
Returned(t) == th[t].result # NoResult

\* The 1-based indices of the pages of a document that do not fail.
RECURSIVE OkIndicesFrom(_, _)
OkIndicesFrom(pages, i) ==
    IF i > Len(pages) THEN <<>>
    ELSE (IF pages[i].status = "ok" THEN <<i>> ELSE <<>>)
           \o OkIndicesFrom(pages, i + 1)

OkIndices(pages) == OkIndicesFrom(pages, 1)

HasFailingPage(pages) == \E i \in 1..Len(pages) : pages[i].status # "ok"

TotalsMatch(r) ==
    /\ r.page_count = Len(r.pages)
    /\ r.total_words = SumSeq([i \in 1..Len(r.pages) |-> r.pages[i].word_count])
    /\ r.total_chars = SumSeq([i \in 1..Len(r.pages) |-> r.pages[i].char_count])
    /\ r.images_count = SumSeq([i \in 1..Len(r.pages) |-> Len(r.pages[i].images)])

\* C1: every record extract_pdf_content returns has page_count equal to the
\* length of pages, and total_words, total_chars and images_count equal to
\* the sums of word_count, char_count and len(images) over the pages in
\* pages, whatever the document and whichever of its pages fail.
C1_RecordTotals == \A t \in Threads : Returned(t) => TotalsMatch(th[t].result)

\* A record was returned for a document with a failing page and a page that
\* has words and an image.
C1_Witness ==
    /\ th[Main].pc = "extracted"
    /\ HasFailingPage(Doc(Main).pages)
    /\ th[Main].result.page_count >= 1
    /\ th[Main].result.total_words >= 1
    /\ th[Main].result.images_count >= 1

\* C2: a page whose loading or extraction fails has no entry in pages, every
\* other page has its entry, the entries are in strictly increasing
\* page_number order with page_number = page index + 1, and a call that
\* opened its document returns a record and does not raise.
C2_PageIsolation ==
    \A t \in Threads :
      /\ Returned(t) =>
           LET ok == OkIndices(Doc(t).pages)
               pages == th[t].result.pages
           IN  /\ Len(pages) = Len(ok)
               /\ \A k \in 1..Len(pages) :
                    /\ pages[k].page_number = ok[k]
                    /\ pages[k].text = Doc(t).pages[ok[k]].text
               /\ \A k \in 1..(Len(pages) - 1) :
                    pages[k].page_number < pages[k + 1].page_number
      /\ (th[t].pc = "raised" /\ ~Returned(t)) =>
           LET file == fs[th[t].pdf_path]
           IN  ~(file.exists /\ file.readable /\ file.content.kind = "doc")

\* A record was returned for a document whose first page fails and whose
\* second page does not: its only entry is page 2.
C2_Witness ==
    /\ th[Main].pc = "extracted"
    /\ Len(Doc(Main).pages) = 2
    /\ Doc(Main).pages[1].status # "ok"
    /\ Doc(Main).pages[2].status = "ok"
    /\ th[Main].result.page_count = 1
    /\ th[Main].result.pages[1].page_number = 2

ContentFields(r) ==
    <<r.file_hash, r.pages, r.fonts_used, r.page_count, r.total_words,
      r.total_chars, r.images_count>>

\* C7: a later extraction of a file returns a record with the same
\* file_hash, pages, fonts_used, page_count, total_words, total_chars and
\* images_count as the first one, for either value of skip_cache: a cache
\* hit neither skips nor shortens the extraction.
C7_Deterministic ==
    \A t \in Threads :
      th[t].pc = "extracted" =>
        ContentFields(th[t].result) = ContentFields(firstResult[th[t].pdf_path])

\* A call that logged the cache notice returned a record with pages and
\* fonts.
C7_Witness ==
    /\ th[Main].pc = "extracted"
    /\ th[Main].cache_hit
    /\ firstResult[th[Main].pdf_path] # NoResult
    /\ th[Main].result.page_count >= 1
    /\ th[Main].result.fonts_used # <<>>

(***************************************************************************)
(* Properties of batch_process, checked under Spec and FairSpec.           *)
(***************************************************************************)
Discovered == 1..dir.n

Count(seq, x) == Cardinality({i \in 1..Len(seq) : seq[i] = x})

Position(seq, x) == CHOOSE i \in 1..Len(seq) : seq[i] = x

\* The file each entry of output_files was written for: the one whose task
\* returned that path.
PathOwner(path) == CHOOSE f \in Files : future[f].result = <<path>>

OutputStems == [i \in 1..Len(output_files) |-> PathOwner(output_files[i])]

\* The task of file f returned an output path.
TaskSucceeded(f) == future[f].state = "finished" /\ future[f].result # <<>>

GoodFile(f) == fs[f].exists /\ fs[f].readable /\ fs[f].content.kind = "doc"

Unsupported(format_type) ==
    Lower(format_type) # FmtJson /\ Lower(format_type) # FmtSummary

\* C3: batch_process raises only for a missing input directory; for an
\* existing one no file's failure leaves a task or batch_process as an
\* exception, and when batch_process returns every discovered file's task
\* has run to its end and been collected.
C3_OnlyMissingDirectoryRaises ==
    /\ bpc = "raised" => ~dir.exists
    /\ \A f \in Files : future[f].exc = ""
    /\ bpc = "returned" =>
         \A f \in Discovered : future[f].state = "finished" /\ f \in Range(collected)

\* The first file could not be read, the second one was still processed and
\* its output path returned.
C3_Witness ==
    /\ bpc = "returned"
    /\ fs[1] = Unreadable
    /\ failed_files = <<1>>
    /\ OutputStems = <<2>>

\* C4: when batch_process returns, each discovered file was dispatched
\* exactly once; output_files holds exactly one path for each file whose
\* extraction and serialization both succeeded, failed_files holds every
\* other file exactly once, and the two lengths add up to the number of
\* discovered files.
C4_Accounting ==
    bpc = "returned" =>
      /\ \A f \in Discovered :
           /\ future[f].runs = 1
           /\ TaskSucceeded(f) =>
                /\ Count(output_files, future[f].result[1]) = 1
                /\ Count(OutputStems, f) = 1
                /\ Count(failed_files, f) = 0
                /\ firstResult[f] # NoResult
                /\ future[f].result[1] \in output_dir
           /\ ~TaskSucceeded(f) =>
                /\ Count(OutputStems, f) = 0
                /\ Count(failed_files, f) = 1
           /\ (~GoodFile(f) \/ Unsupported(save_format)) => ~TaskSucceeded(f)
      /\ Len(output_files) + Len(failed_files) = dir.n

\* Two documents were extracted, the serialization of one failed: one
\* output path, one failure.
C4_Witness ==
    /\ bpc = "returned"
    /\ dir.n = 2
    /\ \A f \in Discovered : firstResult[f] # NoResult
    /\ Len(output_files) = 1
    /\ Len(failed_files) = 1

\* The documents in progress: between the start of extract_pdf_content and
\* the end of the task.
InProgress == {f \in Files : future[f].state = "running"}

Holders(f) == {w \in Workers : th[w].mode = "task" /\ th[w].pdf_path = f}

BoundedPool ==
    /\ Cardinality(InProgress) <= max_workers
    /\ \A f \in InProgress : Cardinality(Holders(f)) = 1
    /\ \A w \in Workers : th[w].mode = "task" => th[w].pdf_path \in InProgress

\* A worker in a task stays with its document until the task has ended.
EndToEnd ==
    \A w \in Workers :
      th[w].mode = "task" =>
        \/ th'[w].mode = "task" /\ th'[w].pdf_path = th[w].pdf_path
        \/ /\ th[w].pc \in {"saved", "raised"}
           /\ th'[w] = IdleFrame
           /\ future'[th[w].pdf_path].state = "finished"

\* C5: at every moment at most max_workers documents are in progress, each
\* held by one worker, and a worker stays with one document from the start
\* of its extraction to the end of its task before it takes another.
C5_BoundedParallelism == []BoundedPool /\ [][EndToEnd]_vars

\* With one worker, the second document waits in the queue while the first
\* is in its page loop.
C5_Witness ==
    /\ max_workers = 1
    /\ InProgress = {1}
    /\ th[1].pc = "pages"
    /\ queue = <<2>>

BatchDone ==
    /\ bpc = "returned"
    /\ tally.logged
    /\ tally.success_count = Len(output_files)
    /\ tally.fail_count = Len(failed_files)
    /\ tally.success_count + tally.fail_count = dir.n
    /\ \A f \in Discovered : future[f].state = "finished"
    /\ \A w \in Workers : th[w].pc = "idle"

\* C6 as amended: for an existing directory with at least one *.pdf file,
\* batch_process eventually finishes every dispatched task and returns,
\* having logged the success and failure counts, whichever files fail and
\* however the workers interleave.
C6_BatchTerminates == (dir.exists /\ dir.n >= 1) ~> BatchDone

\* A batch with a success and a failure has returned with its counts.
C6_Witness ==
    /\ BatchDone
    /\ tally.success_count = 1
    /\ tally.fail_count = 1

\* C6 as claimed, at the end of the call: whenever batch_process has
\* returned for an existing directory, it has reported the success and
\* failure counts.
C6_ReturnsWithTally == (dir.exists /\ bpc = "returned") => tally.logged

\* C8: output_files is in the order in which the collection loop took the
\* tasks (a successful file's path precedes another's exactly when its
\* future was collected first), and the futures that finish after
\* as_completed starts are collected in the order they finish, after those
\* finished before: the order of submission plays no part.
C8_CompletionOrder ==
    /\ OutputStems = SelectSeq(collected, TaskSucceeded)
    /\ \A i, j \in 1..Len(collected) :
         i < j =>
           /\ collected[j] \in asc_finished => collected[i] \in asc_finished
           /\ (collected[i] \notin asc_finished /\ collected[j] \notin asc_finished)
                => Position(done_order, collected[i]) < Position(done_order, collected[j])

\* Both files succeed, the second finishes first while the loop is waiting:
\* the returned list has the second file's path first.
C8_Witness ==
    /\ bpc = "returned"
    /\ asc_finished = {}
    /\ done_order = <<2, 1>>
    /\ OutputStems = <<2, 1>>

\* C9: for an existing directory without *.pdf entries batch_process
\* returns the empty list and does not raise, no task is dispatched, no
\* output file is written and the Processed-Set stays as it was.
C9_EmptyDirectory ==
    (dir.exists /\ dir.n = 0) =>
      /\ bpc \in {"idle", "returned"}
      /\ output_files = <<>>
      /\ queue = <<>>
      /\ \A f \in Files : future[f] = NoFuture
      /\ \A w \in Workers : th[w] = IdleFrame
      /\ output_dir = {}
      /\ processed_files = {}

\* batch_process has returned for an existing directory without *.pdf
\* entries.
C9_Witness ==
    /\ dir.exists
    /\ dir.n = 0
    /\ bpc = "returned"
    /\ ~tally.logged

\* C10: save_result with a format other than json and summary raises
\* ValueError and writes nothing; in a batch every such task's file is
\* recorded as failed, nothing is returned as written, and the batch goes
\* through all its files and returns.
C10_UnsupportedFormat ==
    /\ \A t \in Threads :
         (th[t].format_type # <<>> /\ Unsupported(th[t].format_type)) =>
           /\ th[t].pc = "raised"
           /\ th[t].exc = "ValueError"
           /\ th[t].output_file = <<>>
    /\ Unsupported(save_format) =>
         /\ output_dir = {}
         /\ output_files = <<>>
         /\ dir.exists => bpc # "raised"
         /\ bpc = "returned" =>
              \A f \in Discovered : Count(failed_files, f) = 1

\* A batch with an unsupported format has returned: both documents were
\* extracted and both are recorded as failed.
C10_Witness ==
    /\ bpc = "returned"
    /\ save_format = FmtXml
    /\ \A f \in Discovered : firstResult[f] # NoResult
    /\ Len(failed_files) = 2

(***************************************************************************)
(* Properties of the metadata block and of the font lists, checked under   *)
(* SpecSingle.                                                             *)
(***************************************************************************)
\* Reading the metadata fails: doc.metadata raises, or value.strip() raises
\* on one of its entries.
MetadataFails(md) ==
    ~md.ok \/ \E i \in 1..Len(md.entries) : md.entries[i].kind = "bad"

\* The entries whose value is non-empty after trimming, each with its
\* trimmed value.
TrimmedEntries(entries) ==
    {<<e.key, Strip(e.value)>> :
       e \in {x \in Range(entries) : x.kind = "str" /\ Strip(x.value) # <<>>}}

\* The entries that come before the first one on which strip() raises.
BeforeFirstBad(entries) ==
    LET bad == {i \in 1..Len(entries) : entries[i].kind = "bad"}
    IN  IF bad = {} THEN entries
        ELSE SubSeq(entries, 1, (CHOOSE i \in bad : \A j \in bad : i <= j) - 1)

\* C11 as claimed: the metadata of a returned record holds exactly the keys
\* whose raw value is non-empty after trimming, each with its trimmed value,
\* and it is the empty map when reading the metadata fails at any point,
\* also partway through the entries.
C11_MetadataEmptyOnFailure ==
    \A t \in Threads :
      Returned(t) =>
        th[t].result.metadata =
          IF MetadataFails(Doc(t).metadata) THEN {}
          ELSE TrimmedEntries(Doc(t).metadata.entries)

\* C11, what the code does: the metadata holds the trimmed non-empty entries
\* read before the failure, which is the empty map only when doc.metadata
\* itself fails or the failing entry comes before every non-empty one; the
\* extraction goes on with the pages either way.
C11_MetadataKeptUpToFailure ==
    \A t \in Threads :
      Returned(t) =>
        /\ th[t].result.metadata =
             IF ~Doc(t).metadata.ok THEN {}
             ELSE TrimmedEntries(BeforeFirstBad(Doc(t).metadata.entries))
        /\ th[t].result.page_count = Len(OkIndices(Doc(t).pages))

\* A record was returned for a document whose second metadata entry fails:
\* the first entry is kept and the page was extracted.
C11_Witness ==
    /\ th[Main].pc = "extracted"
    /\ MetadataFails(Doc(Main).metadata)
    /\ th[Main].result.metadata = {<<"title", <<"a">>>>}
    /\ th[Main].result.page_count = 1

\* The distinct font signatures of a page's spans.
Signatures(page) == {FontInfo(page.spans[i]) : i \in 1..Len(page.spans)}

\* A sequence of strings in strictly increasing order: sorted, no duplicates.
StrictlySorted(seq) == \A i \in 1..(Len(seq) - 1) : StrLess(seq[i], seq[i + 1])

\* The fonts of the pages of a record, as one set.
FontsOfPages(pages) == UNION {Range(pages[k].fonts) : k \in 1..Len(pages)}

\* C12 as claimed: each page's fonts is the sorted sequence of the distinct
\* font signatures of the page's spans, empty when the page text is empty or
\* the font extraction fails, and fonts_used is the sorted sequence of the
\* union of the fonts of the pages in pages.
C12_FontsSorted ==
    \A t \in Threads :
      Returned(t) =>
        LET r == th[t].result
            ok == OkIndices(Doc(t).pages)
        IN  /\ \A k \in 1..Len(r.pages) :
                 LET page == Doc(t).pages[ok[k]]
                 IN  /\ StrictlySorted(r.pages[k].fonts)
                     /\ r.pages[k].fonts =
                          IF page.text = <<>> \/ ~page.spansOk THEN <<>>
                          ELSE Sorted(Signatures(page))
            /\ StrictlySorted(r.fonts_used)
            /\ r.fonts_used = Sorted(FontsOfPages(r.pages))

\* C12 for a page's fonts alone, with the code's condition for the empty
\* list (no word in the text): they are in sorted order.
C12_PageFontsSorted ==
    \A t \in Threads :
      Returned(t) =>
        \A k \in 1..Len(th[t].result.pages) :
          StrictlySorted(th[t].result.pages[k].fonts)

\* C12, what the code does: a page's fonts are the distinct signatures of
\* its spans in the iteration order of the process's sets, empty when the
\* text has no word or the font extraction fails; fonts_used is sorted,
\* free of duplicates, and the union of the pages' fonts.
C12_FontsUsedSorted ==
    \A t \in Threads :
      Returned(t) =>
        LET r == th[t].result
            ok == OkIndices(Doc(t).pages)
        IN  /\ \A k \in 1..Len(r.pages) :
                 LET page == Doc(t).pages[ok[k]]
                     fonts == r.pages[k].fonts
                 IN  /\ Len(fonts) = Cardinality(Range(fonts))
                     /\ Range(fonts) =
                          IF WordCount(page.text) = 0 \/ ~page.spansOk THEN {}
                          ELSE Signatures(page)
                     /\ fonts = ListOfSet(Range(fonts))
            /\ StrictlySorted(r.fonts_used)
            /\ Range(r.fonts_used) = FontsOfPages(r.pages)

\* A record was returned with a page whose two fonts are not in sorted
\* order, while fonts_used is.
C12_Witness ==
    /\ th[Main].pc = "extracted"
    /\ \E k \in 1..Len(th[Main].result.pages) :
         /\ Len(th[Main].result.pages[k].fonts) = 2
         /\ ~StrictlySorted(th[Main].result.pages[k].fonts)
    /\ Len(th[Main].result.fonts_used) = 2
    /\ StrictlySorted(th[Main].result.fonts_used)

(***************************************************************************)
(* Properties of the Processed-Set under the batch workers, checked under  *)
(* Spec.                                                                   *)
(***************************************************************************)
\* Worker w has made its membership check (line 168) and its insertion
\* (line 256) is still to come.
AwaitsInsert(w) ==
    \/ th[w].pc \in {"meta", "pages", "finish"}
    \/ th[w].pc = "open" /\ Doc(w).kind = "doc"

\* The step is worker v's membership check, or its insertion.
ReadsSet(v) == th[v].pc = "cache" /\ th'[v].pc # "cache"

InsertsHash(v) == th[v].pc = "finish" /\ th'[v].pc = "extracted"

\* No worker touches the Processed-Set between another worker's membership
\* check and that worker's insertion.
CheckThenInsertIsolated ==
    \A w, v \in Workers :
      (w # v /\ AwaitsInsert(w)) => ~(ReadsSet(v) \/ InsertsHash(v))

\* C13 as claimed: the workers' accesses to the Processed-Set are
\* synchronized: the membership check and the later insertion of one
\* extraction are not interleaved with another worker's access to the set.
C13_Synchronized == [][CheckThenInsertIsolated]_vars

\* Two workers hold files of the same bytes; each made its membership check
\* before the other's insertion, so neither saw the other's hash, and one
\* has inserted while the other's insertion is still to come.
C13_Race ==
    \E w, v \in Workers :
      /\ w # v
      /\ th[w].pc = "extracted"
      /\ AwaitsInsert(v)
      /\ th[v].file_hash = th[w].file_hash
      /\ ~th[w].cache_hit
      /\ ~th[v].cache_hit
      /\ th[w].file_hash \in processed_files

(***************************************************************************)
(* The document handle of extract_pdf_content, checked under SpecSingle.   *)
(***************************************************************************)
\* The handle is open from fitz.open to doc.close() and at no other place
\* of a call; a call that opened its document has closed it once when it
\* has returned its record, and a call that raised never opened one.
HandleClosed ==
    \A t \in Threads :
      /\ th[t].doc_open <=> th[t].pc \in {"meta", "pages"}
      /\ th[t].pc \in {"meta", "pages"} => th[t].closes = 0
      /\ th[t].pc \in {"finish", "extracted", "saved"} => th[t].closes = 1
      /\ th[t].pc = "raised" =>
           /\ th[t].closes = IF Returned(t) THEN 1 ELSE 0
           /\ ~Returned(t) => ~GoodFile(th[t].pdf_path)
      /\ th[t].pc \in {"extracted", "saved"} => Returned(t)

\* doc.close() comes after the last page attempt, and closes the handle
\* once.
ClosedAfterLastPage ==
    \A t \in Threads :
      (th[t].pc # "idle" /\ th'[t].pc # "idle" /\ th'[t].closes # th[t].closes) =>
        /\ th[t].pc = "pages"
        /\ th[t].page_num = Len(Doc(t).pages)
        /\ th[t].doc_open
        /\ th'[t].closes = th[t].closes + 1
        /\ ~th'[t].doc_open

\* C14: in every execution of extract_pdf_content that opened the document,
\* the document is closed exactly once, after the last page attempt and
\* before the call returns, also when pages fail or the metadata read
\* fails; no handle is open once the call has ended.
C14_ClosedExactlyOnce == []HandleClosed /\ [][ClosedAfterLastPage]_vars

\* A record was returned for a document all of whose pages failed: the
\* handle was closed once.
C14_Witness ==
    /\ th[Main].pc = "extracted"
    /\ Len(Doc(Main).pages) = 2
    /\ th[Main].result.page_count = 0
    /\ th[Main].closes = 1
    /\ ~th[Main].doc_open

(***************************************************************************)
(* The output paths of one batch_process run, checked under Spec.          *)
(***************************************************************************)
\* For each file, the paths save_result may form for it.
PathsOf ==
    [f \in Files |->
       {OutputFile(Stem(FileName(f)), timestamp, suffix) :
          timestamp \in Timestamps, suffix \in {SuffixJson, SuffixSummary}}]

\* When the run has returned: the paths of different files differ whatever
\* their time stamps, no path was returned twice, and every returned path
\* is a file of the output directory formed for the file of its task.
DistinctPaths ==
    bpc = "returned" =>
      /\ \A f, g \in Discovered : f < g => PathsOf[f] \cap PathsOf[g] = {}
      /\ \A i, j \in 1..Len(output_files) :
           i < j => output_files[i] # output_files[j]
      /\ \A f \in Discovered :
           TaskSucceeded(f) =>
             /\ future[f].result[1] \in PathsOf[f]
             /\ future[f].result[1] \in output_dir

\* Every file a task opens for writing is formed from its file's stem and a
\* time stamp, and is a new file of the output directory.
NoOverwrite ==
    \A w \in Workers :
      (th[w].pc = "extracted" /\ th'[w].pc # "extracted"
         /\ th'[w].output_file # <<>>) =>
        /\ th'[w].output_file \in PathsOf[th[w].pdf_path]
        /\ th'[w].output_file \notin output_dir
        /\ output_dir' = output_dir \cup {th'[w].output_file}

ReturnedFiles == {f \in Files : firstResult[f] # NoResult}

\* The set holds the hashes of the files for which an extraction returned
\* a record, and no other.
ProcessedIsReturned ==
    processed_files = {MD5(fs[f].content) : f \in ReturnedFiles}

\* A step removes no hash; a step that adds one is the end of an extraction
\* that returns its record, after the document was closed, and adds the
\* hash of that file; a step in which a call raises, in the extraction or
\* in the serialization, leaves the set as it was.
GrowsOnlyAtReturn ==
    /\ processed_files \subseteq processed_files'
    /\ processed_files' # processed_files =>
         \E t \in Threads :
           /\ th[t].pc = "finish"
           /\ th'[t].pc = "extracted"
           /\ th'[t].result # NoResult
           /\ th[t].closes = 1
           /\ ~th[t].doc_open
           /\ processed_files' =
                processed_files \cup {MD5(fs[th[t].pdf_path].content)}
    /\ \A t \in Threads :
         (th[t].pc # "raised" /\ th'[t].pc = "raised") =>
           /\ processed_files' = processed_files
           /\ th[t].pc = "extracted" => th[t].file_hash \in processed_files
           /\ th[t].pc # "extracted" =>
                (th[t].file_hash \in processed_files' =>
                   \E f \in ReturnedFiles : MD5(fs[f].content) = th[t].file_hash)

\* C16: the Processed-Set only grows; a hash is inserted only at the end of
\* an extraction of that file that returns a record, after the document is
\* closed; an extraction that fails leaves the set unchanged; so the set is
\* always the set of the hashes of the files for which an extraction
\* returned a record, also of those whose serialization failed later.
C16_ProcessedSetGrows == []ProcessedIsReturned /\ [][GrowsOnlyAtReturn]_vars

\* Two files with different bytes were extracted, the serialization of the
\* second has just failed, and both hashes are in the set.
C16_Witness ==
    /\ Cardinality(processed_files) = 2
    /\ Cardinality(ReturnedFiles) = 2
    /\ th[Main].pc = "raised"
    /\ th[Main].exc = "OSError"
    /\ th[Main].file_hash \in processed_files

=============================================================================
